---- MODULE Spec2Model ----
(***************************************************************************)
(* Model of the distributed leader-election lock (libs/leader/Leader.ts),  *)
(* of the two-level cache service (libs/CacheService.ts), of the hash      *)
(* counters of the store client and of the timer service (FmkTimer).       *)
(*                                                                         *)
(* Every asynchronous method is cut at its awaits.  A store command is     *)
(* executed by the store at the step that issues it; the continuation      *)
(* after the await is a later step of its own.  Replies on one connection  *)
(* come back in the order the commands were sent, so the continuations of  *)
(* one instance run in FIFO order (pending).                               *)
(* In the cache service a publish reaches every subscriber's inbox at the  *)
(* step that sends it, and a GET / SET / EXPIRE of the L2 getter is served *)
(* at the step that resumes the getter with its reply.                     *)
(***************************************************************************)
EXTENDS Integers, Sequences, FiniteSets, TLC

\* ------------------------------------------------------------------ bounds
MaxCalls == 3          \* elect() and stop() calls the application makes in one behaviour
MaxFires == 3          \* timer callbacks (renewal interval, retry timeout) run in one behaviour
MaxInflight == 2       \* store commands of one instance awaiting their reply
MaxOrphans == 1        \* armed timers of one instance no longer referenced by renewId / electId
MaxErrors == 1         \* store commands that fail (network error) in one behaviour

MaxPubs == 2           \* messages published on the CacheServiceEvent channel in one behaviour
MaxTicks == 2          \* clock ticks in one behaviour
TickMs == 1000         \* milliseconds per clock tick
MaxLookups == 2        \* getter calls in one behaviour
MaxCounterCalls == 3   \* increaseCounter / decreaseCounter calls in one behaviour
MaxPeriods == 3         \* renewal periods of a paced election
MaxPacedCalls == 4      \* elect() and stop() calls of a paced election
MaxRegs == 3            \* onTimer calls in one behaviour
MaxTimerCalls == 2      \* offTimer and stop calls in one behaviour
MaxTimerTicks == 2      \* ticks in one behaviour
MaxOps == 3            \* createCache / updateCache / removeCache / getCache calls in one behaviour

\* ttl counted in renewal periods: the renewal interval is ttl / 2
TtlTicks == 2

\* two Leader instances compete for one election project
Inst == {1, 2}
NoHolder == 0          \* redis.get of an absent key: null
Err == -1              \* a rejected store command

VARIABLES
  lockHolder,   \* value of the lock key in the store (NoHolder: key absent)
  lockTtl,      \* remaining life of the lock key, in renewal periods
  pending,      \* per instance: store commands sent whose continuation has not run, FIFO
  renewRef,     \* per instance: renewId refers to an armed interval
  renewOrph,    \* per instance: armed intervals renewId no longer refers to
  electRef,     \* per instance: electId refers to an armed timeout
  electOrph,    \* per instance: armed timeouts electId no longer refers to
  leading,      \* per instance: emitted `elected`, and since then neither `revoked` nor stopped
  phase,        \* per instance: "idle" | "active" (elect() called) | "stopping" (stop() running)
  lastWrite,    \* the record the last pexpire / del of an instance hit: "none" so far,
                \* its "own", a "foreign" one (another holder's), or "gone" (key absent)
  lastChecked,  \* that pexpire / del followed a holder check that read the own id
  calls,        \* elect() and stop() calls made so far
  fires,        \* timer callbacks run so far
  everExpired,  \* the store has expired the lock key at least once
  starved,      \* the instance whose timers never fire again (0: none)
  errs,         \* store commands that have failed so far
  emitted       \* per instance: the events the last step of its code emitted, in order

leaderVars == <<lockHolder, lockTtl, pending, renewRef, renewOrph, electRef, electOrph,
                leading, phase, lastWrite, lastChecked, calls, fires,
                everExpired, starved, errs, emitted>>

VARIABLES
  l1,           \* per replica: levelOneCache, key -> value (Absent: no such property)
  l1ttl,        \* per replica: levelOneCacheTTL, key -> [createdAt, ttl] (NoTtl: none)
  inbox,        \* per replica: messages delivered to redisSub and not yet handled, FIFO
  call,         \* per replica: the L1 / L2 getter call in progress, or the last one finished
  handled,      \* per replica: the last message its subscriber handled
  l2,           \* the store: namespaced key -> JSON text (Absent: no such key)
  l2ttl,        \* the store: the key has an expiry
  now,          \* Date.now()
  pubs,         \* messages published so far; the last one's number
  cerrs,        \* provider calls and store commands of the cache that have failed so far
  looks,        \* getter calls so far
  disturbed,    \* a reset was published or a sweep deleted an entry
  proc          \* per replica: "up"; "escaped": an error left the message handler uncaught
                \* and the process runs on; "down": the runtime ended the process for it

cacheVars == <<l1, l1ttl, inbox, call, handled, l2, l2ttl, now, pubs, cerrs, looks, disturbed,
              proc>>

VARIABLES
  field,        \* the value of one field of one hash counter in the store
  hflight,      \* hincrby commands sent and not yet served: [by, step, seen]
  net,          \* sum of the steps of the commands sent and not rejected
  hcalls,       \* increaseCounter / decreaseCounter calls so far
  raced         \* a command was served after another one sent later than it, or before it
                \* and served in between, changed the field

counterVars == <<field, hflight, net, hcalls, raced>>

VARIABLES
  bucket,       \* FmkTimer.timer: interval -> its Handlers, in insertion order, <<>>: no bucket
  live,         \* the intervals whose setInterval handle has not been cleared
  listeners,    \* interval -> listeners added with this.on for its tick event
  regs,         \* onTimer calls so far; the last callback's number
  replaced,     \* callbacks whose name was registered again by a later onTimer
  started,      \* callbacks called by the last tick, in call order; <<>> after any
                \* onTimer / offTimer / stop call
  lastT,        \* the interval of that tick, 0 if none
  last,         \* the last onTimer / offTimer / stop call: [op, name, interval]
  tcalls,       \* offTimer and stop calls so far
  tticks,       \* ticks so far
  talive        \* the process has not been ended by an error thrown out of a tick

timerVars == <<bucket, live, listeners, regs, replaced, started, lastT, last, tcalls, tticks,
               talive>>

VARIABLES
  pace          \* the renewal periods of the store's clock: [due, periods], due: the instances
                \* whose renewal interval has not fired in the current period

vars == <<leaderVars, cacheVars, counterVars, timerVars, pace>>
nonCacheVars == <<leaderVars, counterVars, timerVars, pace>>
nonLeaderVars == <<cacheVars, counterVars, timerVars, pace>>
nonCounterVars == <<leaderVars, cacheVars, timerVars, pace>>
nonTimerVars == <<leaderVars, cacheVars, counterVars, pace>>
nonElectionVars == <<cacheVars, counterVars, timerVars>>

\* ------------------------------------------------------------ the store
\* SET key id PX ttl NX: the new holder, the new ttl and the reply (1: OK, 0: null)
SetNxBroken(holder, ttl, id) == <<id, TtlTicks, 1>>
SetNx(holder, ttl, id) ==
  IF holder = NoHolder THEN <<id, TtlTicks, 1>> ELSE <<holder, ttl, 0>>

\* PEXPIRE key ttl: the new ttl and the reply (1 when the key exists)
PExpire(holder, ttl) ==
  IF holder = NoHolder THEN <<ttl, 0>> ELSE <<TtlTicks, 1>>

\* ---------------------------------------------------------- Leader.ts
Msg(op, res) == [op |-> op, res |-> res]

HasPending(i, ops) == \E k \in 1..Len(pending[i]) : pending[i][k].op \in ops

\* isLeader(): the reply of GET compared with the own id; an error gives false
IsLeaderUnchecked(i, res) == res # Err
IsLeader(i, res) == res = i

\* setInterval / setTimeout assigned to renewId / electId: a handle still armed
\* under the old id stays armed and is no longer referenced
CanArm(ref, orph, i) == ref[i] => orph[i] < MaxOrphans
ArmedOrphTwice(ref, orph, i) == [orph EXCEPT ![i] = @ + 1]
ArmedOrph(ref, orph, i) == IF ref[i] THEN [orph EXCEPT ![i] = @ + 1] ELSE orph

\* whose record a pexpire / del of instance i hits
Hit(i) == IF lockHolder = NoHolder THEN "gone" ELSE IF lockHolder = i THEN "own" ELSE "foreign"

\* this.emit(...) calls of one step of instance i
Emit(i, events) == emitted' = [emitted EXCEPT ![i] = events]

Failing(fail) ==
  /\ fail => errs < MaxErrors
  /\ errs' = IF fail THEN errs + 1 ELSE errs

\* elect() up to its await: SET key id PX ttl NX
ElectBody(i, fail) ==
  /\ Len(pending[i]) < MaxInflight
  /\ Failing(fail)
  /\ LET r == SetNx(lockHolder, lockTtl, i) IN
       IF fail
       THEN /\ pending' = [pending EXCEPT ![i] = Append(@, Msg("elect", Err))]
            /\ UNCHANGED <<lockHolder, lockTtl>>
       ELSE /\ pending' = [pending EXCEPT ![i] = Append(@, Msg("elect", r[3]))]
            /\ lockHolder' = r[1]
            /\ lockTtl' = r[2]

\* the application calls elect(); budget: the calls one behaviour may make
ElectCall(i, fail, budget) ==
  /\ UNCHANGED fires
  /\ Emit(i, <<>>)
  /\ calls < budget
  /\ calls' = calls + 1
  /\ ElectBody(i, fail)
  /\ phase' = [phase EXCEPT ![i] = "active"]
  /\ UNCHANGED <<renewRef, renewOrph, electRef, electOrph, leading, lastWrite, lastChecked,
                 everExpired, starved>>

CallElect(i, fail) == ElectCall(i, fail, MaxCalls)

\* the retry timeout fires: () => this.elect()
RetryTimeout(i, fail) ==
  /\ starved # i
  /\ Emit(i, <<>>)
  /\ \/ /\ electRef[i]
        /\ electRef' = [electRef EXCEPT ![i] = FALSE]
        /\ UNCHANGED electOrph
     \/ /\ electOrph[i] > 0
        /\ electOrph' = [electOrph EXCEPT ![i] = @ - 1]
        /\ UNCHANGED electRef
  /\ ElectBody(i, fail)
  /\ UNCHANGED <<renewRef, renewOrph, leading, phase, lastWrite, lastChecked, calls,
                 everExpired, starved>>

RetryFire(i, fail) ==
  /\ fires < MaxFires
  /\ fires' = fires + 1
  /\ RetryTimeout(i, fail)

\* ElectReplied without the retry of a lost election
ElectRepliedNoRetry(i) ==
  /\ UNCHANGED fires
  /\ pending[i] # <<>>
  /\ Head(pending[i]).op = "elect"
  /\ Emit(i, IF Head(pending[i]).res \notin {Err, 0} THEN <<"elected">> ELSE <<>>)
  /\ pending' = [pending EXCEPT ![i] = Tail(@)]
  /\ LET res == Head(pending[i]).res IN
       IF res # Err /\ res # 0
       THEN /\ CanArm(renewRef, renewOrph, i)
            /\ leading' = [leading EXCEPT ![i] = TRUE]
            /\ renewOrph' = ArmedOrph(renewRef, renewOrph, i)
            /\ renewRef' = [renewRef EXCEPT ![i] = TRUE]
            /\ UNCHANGED <<electRef, electOrph>>
       ELSE UNCHANGED <<renewRef, renewOrph, electRef, electOrph, leading>>
  /\ UNCHANGED <<lockHolder, lockTtl, phase, lastWrite, lastChecked, calls, everExpired,
                 starved, errs>>

\* elect() after its await
ElectReplied(i) ==
  /\ UNCHANGED fires
  /\ pending[i] # <<>>
  /\ Head(pending[i]).op = "elect"
  /\ Emit(i, IF Head(pending[i]).res = Err THEN <<"error">>
             ELSE IF Head(pending[i]).res # 0 THEN <<"elected">> ELSE <<>>)
  /\ pending' = [pending EXCEPT ![i] = Tail(@)]
  /\ LET res == Head(pending[i]).res IN
       IF res = Err
       THEN UNCHANGED <<renewRef, renewOrph, electRef, electOrph, leading>>
       ELSE IF res # 0
       THEN /\ CanArm(renewRef, renewOrph, i)
            /\ leading' = [leading EXCEPT ![i] = TRUE]
            /\ renewOrph' = ArmedOrph(renewRef, renewOrph, i)
            /\ renewRef' = [renewRef EXCEPT ![i] = TRUE]
            /\ UNCHANGED <<electRef, electOrph>>
       ELSE /\ CanArm(electRef, electOrph, i)
            /\ electOrph' = ArmedOrph(electRef, electOrph, i)
            /\ electRef' = [electRef EXCEPT ![i] = TRUE]
            /\ UNCHANGED <<renewRef, renewOrph, leading>>
  /\ UNCHANGED <<lockHolder, lockTtl, phase, lastWrite, lastChecked, calls, everExpired,
                 starved, errs>>

\* the renewal interval fires: () => this.renew(), up to the await in isLeader()
RenewInterval(i, fail) ==
  /\ starved # i
  /\ Emit(i, <<>>)
  /\ renewRef[i] \/ renewOrph[i] > 0
  /\ Len(pending[i]) < MaxInflight
  /\ Failing(fail)
  /\ pending' = [pending EXCEPT
                   ![i] = Append(@, Msg("renewGet", IF fail THEN Err ELSE lockHolder))]
  /\ UNCHANGED <<lockHolder, lockTtl, renewRef, renewOrph, electRef, electOrph, leading,
                 phase, lastWrite, lastChecked, calls, everExpired, starved>>

RenewFire(i, fail) ==
  /\ fires < MaxFires
  /\ fires' = fires + 1
  /\ RenewInterval(i, fail)

\* renew() after isLeader(): pexpire, or give up the renewal and retry
RenewChecked(i, fail) ==
  /\ UNCHANGED fires
  /\ pending[i] # <<>>
  /\ Head(pending[i]).op = "renewGet"
  /\ Emit(i, (IF Head(pending[i]).res = Err THEN <<"error">> ELSE <<>>)
             \o (IF IsLeader(i, Head(pending[i]).res) THEN <<>> ELSE <<"revoked">>))
  /\ LET res == Head(pending[i]).res IN
       IF IsLeader(i, res)
       THEN /\ Failing(fail)
            /\ LET r == PExpire(lockHolder, lockTtl) IN
                 /\ pending' = [pending EXCEPT
                      ![i] = Append(Tail(@), Msg("renewPexpire", IF fail THEN Err ELSE 1))]
                 /\ lockTtl' = IF fail THEN lockTtl ELSE r[1]
            /\ lastWrite' = IF fail THEN lastWrite ELSE Hit(i)
            /\ lastChecked' = IF fail THEN lastChecked ELSE (res = i)
            /\ UNCHANGED <<renewRef, electRef, electOrph, leading>>
       ELSE /\ ~fail
            /\ CanArm(electRef, electOrph, i)
            /\ pending' = [pending EXCEPT ![i] = Tail(@)]
            /\ renewRef' = [renewRef EXCEPT ![i] = FALSE]
            /\ electOrph' = ArmedOrph(electRef, electOrph, i)
            /\ electRef' = [electRef EXCEPT ![i] = TRUE]
            /\ leading' = [leading EXCEPT ![i] = FALSE]
            /\ UNCHANGED <<lockTtl, lastWrite, lastChecked, errs>>
  /\ UNCHANGED <<lockHolder, renewOrph, phase, calls, everExpired, starved>>

\* renew() after the await of pexpire
RenewExtended(i) ==
  /\ UNCHANGED fires
  /\ pending[i] # <<>>
  /\ Head(pending[i]).op = "renewPexpire"
  /\ Emit(i, IF Head(pending[i]).res = Err THEN <<"error">> ELSE <<>>)
  /\ pending' = [pending EXCEPT ![i] = Tail(@)]
  /\ UNCHANGED <<lockHolder, lockTtl, renewRef, renewOrph, electRef, electOrph, leading,
                 phase, lastWrite, lastChecked, calls, everExpired, starved, errs>>

\* the application calls stop(), up to the await in isLeader()
StopCall(i, fail, budget) ==
  /\ UNCHANGED fires
  /\ Emit(i, <<>>)
  /\ calls < budget
  /\ calls' = calls + 1
  /\ phase[i] # "idle"
  /\ Len(pending[i]) < MaxInflight
  /\ Failing(fail)
  /\ pending' = [pending EXCEPT
                   ![i] = Append(@, Msg("stopGet", IF fail THEN Err ELSE lockHolder))]
  /\ phase' = [phase EXCEPT ![i] = "stopping"]
  /\ UNCHANGED <<lockHolder, lockTtl, renewRef, renewOrph, electRef, electOrph, leading,
                 lastWrite, lastChecked, everExpired, starved>>

CallStop(i, fail) == StopCall(i, fail, MaxCalls)

\* stop() has run to its end without an error
Stopped(i) ==
  /\ renewRef' = [renewRef EXCEPT ![i] = FALSE]
  /\ electRef' = [electRef EXCEPT ![i] = FALSE]
  /\ leading' = [leading EXCEPT ![i] = FALSE]
  /\ phase' = [phase EXCEPT ![i] = IF @ = "stopping" THEN "idle" ELSE @]

\* stop() after isLeader(): del, or clear the timers at once
StopChecked(i, fail) ==
  /\ UNCHANGED fires
  /\ pending[i] # <<>>
  /\ Head(pending[i]).op = "stopGet"
  /\ Emit(i, IF Head(pending[i]).res = Err THEN <<"error">> ELSE <<>>)
  /\ LET res == Head(pending[i]).res IN
       IF IsLeader(i, res)
       THEN /\ Failing(fail)
            /\ pending' = [pending EXCEPT
                 ![i] = Append(Tail(@), Msg("stopDel", IF fail THEN Err ELSE 1))]
            /\ lockHolder' = IF fail THEN lockHolder ELSE NoHolder
            /\ lockTtl' = IF fail THEN lockTtl ELSE 0
            /\ lastWrite' = IF fail THEN lastWrite ELSE Hit(i)
            /\ lastChecked' = IF fail THEN lastChecked ELSE (res = i)
            /\ UNCHANGED <<renewRef, electRef, leading, phase>>
       ELSE /\ ~fail
            /\ pending' = [pending EXCEPT ![i] = Tail(@)]
            /\ Stopped(i)
            /\ UNCHANGED <<lockHolder, lockTtl, lastWrite, lastChecked, errs>>
  /\ UNCHANGED <<renewOrph, electOrph, calls, everExpired, starved>>

\* stop() after the await of del: emit revoked and clear the timers; a rejected
\* del goes to the catch block, past both
StopDeleted(i) ==
  /\ UNCHANGED fires
  /\ pending[i] # <<>>
  /\ Head(pending[i]).op = "stopDel"
  /\ Emit(i, IF Head(pending[i]).res = Err THEN <<"error">> ELSE <<"revoked">>)
  /\ pending' = [pending EXCEPT ![i] = Tail(@)]
  /\ IF Head(pending[i]).res = Err
     THEN UNCHANGED <<renewRef, electRef, leading, phase>>
     ELSE Stopped(i)
  /\ UNCHANGED <<lockHolder, lockTtl, renewOrph, electOrph, lastWrite, lastChecked, calls,
                 everExpired, starved, errs>>

\* one renewal period passes at the store; a key whose ttl runs out is removed
StoreTick ==
  /\ UNCHANGED <<fires, emitted>>
  /\ lockHolder # NoHolder
  /\ IF lockTtl > 1
     THEN /\ lockTtl' = lockTtl - 1
          /\ UNCHANGED <<lockHolder, everExpired>>
     ELSE /\ lockTtl' = 0
          /\ lockHolder' = NoHolder
          /\ everExpired' = TRUE
  /\ UNCHANGED <<pending, renewRef, renewOrph, electRef, electOrph, leading, phase,
                 lastWrite, lastChecked, calls, starved, errs>>

\* the event loop of an instance that leads stops serving its timers
Starve(i) ==
  /\ UNCHANGED <<fires, emitted>>
  /\ starved = 0
  /\ leading[i]
  /\ starved' = i
  /\ UNCHANGED <<lockHolder, lockTtl, pending, renewRef, renewOrph, electRef, electOrph,
                 leading, phase, lastWrite, lastChecked, calls, everExpired, errs>>

InitLeader ==
  /\ lockHolder = NoHolder
  /\ lockTtl = 0
  /\ pending = [i \in Inst |-> <<>>]
  /\ renewRef = [i \in Inst |-> FALSE]
  /\ renewOrph = [i \in Inst |-> 0]
  /\ electRef = [i \in Inst |-> FALSE]
  /\ electOrph = [i \in Inst |-> 0]
  /\ leading = [i \in Inst |-> FALSE]
  /\ phase = [i \in Inst |-> "idle"]
  /\ lastWrite = "none"
  /\ lastChecked = TRUE
  /\ calls = 0
  /\ fires = 0
  /\ everExpired = FALSE
  /\ starved = 0
  /\ errs = 0
  /\ emitted = [i \in Inst |-> <<>>]

\* ------------------------------------------------------ CacheService.ts
Rep == {1, 2}                    \* service replicas, each with its own L1 maps
Undef == "none"                  \* a getter called without an argument
Params == {"a"}                  \* cache params given to L1() / L2()
Args == Params \union {Undef}
Getters == {"a", "b"}           \* params of the getters made with L1()
Absent == "absent"
NoTtl == [createdAt |-> 0, ttl |-> 0]   \* no entry in levelOneCacheTTL
Nil == "nil"                     \* undefined / null
ProviderVals == {Nil, "zero", "date"}   \* undefined, 0, a Date
TtlChoices == {0, 1}             \* ttlSeconds: not given, or one second

\* JSON.stringify(parma) used as a property name: undefined names "undefined"
KeyOf(arg) == IF arg = Undef THEN "undefined" ELSE "\"" \o arg \o "\""
Keys == {KeyOf(x) : x \in Args}

\* _.isNil
IsNil(v) == v = Nil \/ v = Absent
\* if (levelOneCache[param]): 0 and null are falsy, a missing property too
Truthy(v) == ~IsNil(v) /\ v # "zero"

\* JSON.stringify of a value and JSON.parse of the text: a Date comes back as a string
Stringify(v) ==
  CASE v = "zero" -> "0"
    [] v = "one" -> "1"
    [] v = "two" -> "2"
    [] v = "date" -> "\"d\""
    [] v = "str" -> "\"d\""
    [] OTHER -> "null"
Parse(t) ==
  CASE t = "0" -> "zero"
    [] t = "1" -> "one"
    [] t = "2" -> "two"
    [] t = "\"d\"" -> "str"
    [] OTHER -> Nil
Json(v) == Parse(Stringify(v))

NoCall == [pc |-> "none", op |-> "none", level |-> 0, param |-> Undef, key |-> KeyOf(Undef),
           ttl |-> 0, cached |-> Absent,
           prov |-> Nil, invoked |-> 0, trips |-> 0, value |-> Nil, prev |-> "none"]
NoMsg == [event |-> "none", param |-> KeyOf(Undef), value |-> "null", createdAt |-> 0, ttl |-> 0,
          id |-> 0]

\* a process the runtime has ended takes no step
Up(r) == proc[r] # "down"
MayCall(r) == Up(r) /\ call[r].pc \in {"none", "done", "failed"}

FailingCache(fail) ==
  /\ fail => cerrs < MaxErrors
  /\ cerrs' = IF fail THEN cerrs + 1 ELSE cerrs

\* redis.publish('CacheServiceEvent', ...): the broker hands the message to every subscriber
Published(m) == [r \in Rep |-> Append(inbox[r], m)]

\* the L1_UPDATE message of L1(): createdAt and ttl only when ttlSeconds is truthy
UpdateMsg(k, v, t, id) ==
  [event |-> "L1_UPDATE", param |-> k, value |-> Stringify(v),
   createdAt |-> IF t # 0 THEN now ELSE 0, ttl |-> t, id |-> id]
ResetMsg(k, id) ==
  [event |-> "REST", param |-> k, value |-> "null", createdAt |-> 0, ttl |-> 0, id |-> id]

\* the getter returned by L1(param, provider, ttlSeconds) is called with arg
LookupAlways(r, k, v, t) ==
  LET old == call[r]
      c == [NoCall EXCEPT !.level = 1, !.key = k, !.ttl = t, !.cached = v,
                          !.prev = IF old.pc = "done" /\ old.level = 1 /\ old.key = k
                                   THEN old.value ELSE "none"]
  IN [c EXCEPT !.pc = "provider", !.invoked = 1]

Lookup(r, k, v, t) ==
  LET old == call[r]
      c == [NoCall EXCEPT !.level = 1, !.key = k, !.ttl = t, !.cached = v,
                          !.prev = IF old.pc = "done" /\ old.level = 1 /\ old.key = k
                                   THEN old.value ELSE "none"]
  IN IF IsNil(v) THEN [c EXCEPT !.pc = "provider", !.invoked = 1]
     ELSE [c EXCEPT !.pc = "done", !.value = v]

\* getter: the param the getter was made for by L1(param, ...); the key is that of arg
L1Lookup(r, getter, arg, t) ==
  /\ MayCall(r)
  /\ looks < MaxLookups
  /\ looks' = looks + 1
  /\ call' = [call EXCEPT
               ![r] = [Lookup(r, KeyOf(arg), l1[r][KeyOf(arg)], t) EXCEPT !.param = getter]]
  /\ UNCHANGED <<l1, l1ttl, inbox, handled, l2, l2ttl, now, pubs, cerrs, disturbed, proc>>

\* the provider of an L1 getter settles: a non-nil value is published
L1Provided(r, v, fail) ==
  /\ Up(r)
  /\ call[r].pc = "provider"
  /\ call[r].level = 1
  /\ FailingCache(fail)
  /\ IF fail
     THEN /\ call' = [call EXCEPT ![r].pc = "failed"]
          /\ UNCHANGED <<inbox, pubs>>
     ELSE IF IsNil(v)
     THEN /\ call' = [call EXCEPT ![r].pc = "done", ![r].prov = v, ![r].value = v]
          /\ UNCHANGED <<inbox, pubs>>
     ELSE /\ pubs < MaxPubs
          /\ pubs' = pubs + 1
          /\ inbox' = Published(UpdateMsg(call[r].key, v, call[r].ttl, pubs + 1))
          /\ call' = [call EXCEPT ![r].pc = "publish", ![r].prov = v, ![r].value = v,
                                   ![r].trips = 1]
  /\ UNCHANGED <<l1, l1ttl, handled, l2, l2ttl, now, looks, disturbed, proc>>

\* the provider returned the non-nil v and the publish is rejected: the getter rejects
L1PublishFailedSent(r, v) ==
  /\ Up(r)
  /\ call[r].pc = "provider"
  /\ call[r].level = 1
  /\ ~IsNil(v)
  /\ FailingCache(TRUE)
  /\ pubs < MaxPubs
  /\ pubs' = pubs + 1
  /\ inbox' = Published(UpdateMsg(call[r].key, v, call[r].ttl, pubs + 1))
  /\ call' = [call EXCEPT ![r].pc = "failed", ![r].prov = v]
  /\ UNCHANGED <<l1, l1ttl, handled, l2, l2ttl, now, looks, disturbed, proc>>

L1PublishFailed(r, v) ==
  /\ Up(r)
  /\ call[r].pc = "provider"
  /\ call[r].level = 1
  /\ ~IsNil(v)
  /\ FailingCache(TRUE)
  /\ call' = [call EXCEPT ![r].pc = "failed", ![r].prov = v]
  /\ UNCHANGED <<l1, l1ttl, inbox, handled, l2, l2ttl, now, pubs, looks, disturbed, proc>>

L1PublishedWrites(r) ==
  /\ Up(r)
  /\ call[r].pc = "publish"
  /\ call' = [call EXCEPT ![r].pc = "done"]
  /\ l1' = [l1 EXCEPT ![r][call[r].key] = call[r].value]
  /\ UNCHANGED <<l1ttl, inbox, handled, l2, l2ttl, now, pubs, cerrs, looks, disturbed, proc>>

\* the publish of an L1 getter is acknowledged: the getter returns the provider's value
L1Published(r) ==
  /\ Up(r)
  /\ call[r].pc = "publish"
  /\ call' = [call EXCEPT ![r].pc = "done"]
  /\ UNCHANGED <<l1, l1ttl, inbox, handled, l2, l2ttl, now, pubs, cerrs, looks, disturbed, proc>>

\* reset(param): publish a REST message
Reset(arg) ==
  /\ pubs < MaxPubs
  /\ pubs' = pubs + 1
  /\ inbox' = Published(ResetMsg(KeyOf(arg), pubs + 1))
  /\ disturbed' = TRUE
  /\ UNCHANGED <<l1, l1ttl, call, handled, l2, l2ttl, now, cerrs, looks, proc>>

\* redisSub.on('message'): the REST branch and the L1_UPDATE branch
ResetBranchValueOnly(r, m) ==
  /\ IF Truthy(l1[r][m.param])
     THEN /\ l1' = [l1 EXCEPT ![r][m.param] = Absent]
          /\ UNCHANGED l1ttl
     ELSE UNCHANGED <<l1, l1ttl>>
  /\ l2' = [l2 EXCEPT ![m.param] = Absent]
  /\ l2ttl' = [l2ttl EXCEPT ![m.param] = FALSE]

ResetBranch(r, m) ==
  /\ IF Truthy(l1[r][m.param])
     THEN /\ l1' = [l1 EXCEPT ![r][m.param] = Absent]
          /\ l1ttl' = [l1ttl EXCEPT ![r][m.param] = NoTtl]
     ELSE UNCHANGED <<l1, l1ttl>>
  /\ l2' = [l2 EXCEPT ![m.param] = Absent]
  /\ l2ttl' = [l2ttl EXCEPT ![m.param] = FALSE]

UpdateBranchGuarded(r, m) ==
  /\ l1' = IF l1[r][m.param] = Absent THEN [l1 EXCEPT ![r][m.param] = Parse(m.value)] ELSE l1
  /\ l1ttl' = IF m.ttl # 0 /\ m.createdAt # 0 /\ l1[r][m.param] = Absent
              THEN [l1ttl EXCEPT ![r][m.param] = [createdAt |-> m.createdAt, ttl |-> m.ttl]]
              ELSE l1ttl
  /\ UNCHANGED <<l2, l2ttl>>

UpdateBranch(r, m) ==
  /\ l1' = [l1 EXCEPT ![r][m.param] = Parse(m.value)]
  /\ l1ttl' = IF m.ttl # 0 /\ m.createdAt # 0
              THEN [l1ttl EXCEPT ![r][m.param] = [createdAt |-> m.createdAt, ttl |-> m.ttl]]
              ELSE l1ttl
  /\ UNCHANGED <<l2, l2ttl>>

Receive(r) ==
  /\ Up(r)
  /\ inbox[r] # <<>>
  /\ inbox' = [inbox EXCEPT ![r] = Tail(@)]
  /\ LET m == Head(inbox[r]) IN
       /\ m.event # "garbage"
       /\ handled' = [handled EXCEPT ![r] = m]
       /\ IF m.event = "REST" THEN ResetBranch(r, m) ELSE UpdateBranch(r, m)
  /\ UNCHANGED <<call, now, pubs, cerrs, looks, disturbed, proc>>

\* a payload on the channel that JSON.parse or the destructuring rejects
GarbageMsg(id) ==
  [event |-> "garbage", param |-> KeyOf(Undef), value |-> "garbage", createdAt |-> 0, ttl |-> 0,
   id |-> id]

\* some client publishes such a payload on CacheServiceEvent
PublishForeign ==
  /\ pubs < MaxPubs
  /\ pubs' = pubs + 1
  /\ inbox' = Published(GarbageMsg(pubs + 1))
  /\ UNCHANGED <<l1, l1ttl, call, handled, l2, l2ttl, now, cerrs, looks, disturbed, proc>>

\* redisSub.on('message') when JSON.parse throws, or when the del of the REST branch is
\* rejected: nothing catches either; the runtime ends the process or lets it run on
ReceiveFailing(r, fatal) ==
  /\ Up(r)
  /\ inbox[r] # <<>>
  /\ inbox' = [inbox EXCEPT ![r] = Tail(@)]
  /\ LET m == Head(inbox[r]) IN
       /\ handled' = [handled EXCEPT ![r] = m]
       /\ \/ /\ m.event = "garbage"
             /\ UNCHANGED <<l1, l1ttl, cerrs>>
          \/ /\ m.event = "REST"
             /\ FailingCache(TRUE)
             /\ IF Truthy(l1[r][m.param])
                THEN /\ l1' = [l1 EXCEPT ![r][m.param] = Absent]
                     /\ l1ttl' = [l1ttl EXCEPT ![r][m.param] = NoTtl]
                ELSE UNCHANGED <<l1, l1ttl>>
  /\ proc' = [proc EXCEPT ![r] = IF fatal THEN "down" ELSE "escaped"]
  /\ UNCHANGED <<call, l2, l2ttl, now, pubs, looks, disturbed>>

\* the CacheService:CacheChecker callback
ExpiredNoScale(e, t) == e.createdAt + e.ttl < t
Expired(e, t) == e.createdAt + e.ttl * 1000 < t
ExpiredKeys(r) == {k \in Keys : l1ttl[r][k] # NoTtl /\ Expired(l1ttl[r][k], now)}
Sweep(r) ==
  /\ Up(r)
  /\ ExpiredKeys(r) # {}
  /\ l1' = [l1 EXCEPT ![r] = [k \in Keys |-> IF k \in ExpiredKeys(r) THEN Absent ELSE @[k]]]
  /\ l1ttl' = [l1ttl EXCEPT ![r] = [k \in Keys |-> IF k \in ExpiredKeys(r) THEN NoTtl ELSE @[k]]]
  /\ disturbed' = TRUE
  /\ UNCHANGED <<inbox, call, handled, l2, l2ttl, now, pubs, cerrs, looks, proc>>

ClockTick ==
  /\ now < (MaxTicks + 1) * TickMs
  /\ now' = now + TickMs
  /\ UNCHANGED <<l1, l1ttl, inbox, call, handled, l2, l2ttl, pubs, cerrs, looks, disturbed, proc>>

\* the getter returned by L2(param, provider, ttlSeconds) is called with arg: GET is sent
\* prev: what the last finished L2 call for the key returned, on this replica or another
LastReturned(r, k) ==
  LET mine == call[r].pc = "done" /\ call[r].level = 2 /\ call[r].key = k
      others == {o \in Rep : call[o].pc = "done" /\ call[o].level = 2 /\ call[o].key = k}
  IN IF mine THEN call[r].value
     ELSE IF others # {} THEN call[CHOOSE o \in others : TRUE].value ELSE "none"

L2Lookup(r, arg, t) ==
  /\ MayCall(r)
  /\ looks < MaxLookups
  /\ looks' = looks + 1
  /\ call' = [call EXCEPT ![r] =
                [NoCall EXCEPT !.level = 2, !.pc = "get", !.key = KeyOf(arg), !.ttl = t,
                               !.trips = 1, !.prev = LastReturned(r, KeyOf(arg))]]
  /\ UNCHANGED <<l1, l1ttl, inbox, handled, l2, l2ttl, now, pubs, cerrs, disturbed, proc>>

\* what a call that got valueStr does next: a nil reply calls the provider
GotAlways(c, valueStr) == [c EXCEPT !.pc = "provider", !.cached = valueStr, !.invoked = 1]
Got(c, valueStr) ==
  IF IsNil(valueStr) THEN [c EXCEPT !.pc = "provider", !.cached = valueStr, !.invoked = 1]
  ELSE [c EXCEPT !.pc = "done", !.cached = valueStr, !.value = Parse(valueStr)]

\* GET is served and its reply resumes the getter
L2Got(r, fail) ==
  /\ Up(r)
  /\ call[r].pc = "get"
  /\ FailingCache(fail)
  /\ call' = [call EXCEPT ![r] = IF fail THEN [@ EXCEPT !.pc = "failed"]
                                 ELSE Got(@, l2[call[r].key])]
  /\ UNCHANGED <<l1, l1ttl, inbox, handled, l2, l2ttl, now, pubs, looks, disturbed, proc>>

\* the provider of an L2 getter settles: SET is sent for a non-nil value
L2Provided(r, v, fail) ==
  /\ Up(r)
  /\ call[r].pc = "provider"
  /\ call[r].level = 2
  /\ FailingCache(fail)
  /\ call' = [call EXCEPT ![r] =
                IF fail THEN [@ EXCEPT !.pc = "failed"]
                ELSE IF IsNil(v) THEN [@ EXCEPT !.pc = "done", !.prov = v, !.value = v]
                ELSE [@ EXCEPT !.pc = "set", !.prov = v, !.value = v, !.trips = 2]]
  /\ UNCHANGED <<l1, l1ttl, inbox, handled, l2, l2ttl, now, pubs, looks, disturbed, proc>>

\* SET is served (it drops any expiry of the key); EXPIRE is sent when ttlSeconds is truthy
L2Stored(r, fail) ==
  /\ Up(r)
  /\ call[r].pc = "set"
  /\ FailingCache(fail)
  /\ IF fail
     THEN /\ call' = [call EXCEPT ![r].pc = "failed"]
          /\ UNCHANGED <<l2, l2ttl>>
     ELSE /\ l2' = [l2 EXCEPT ![call[r].key] = Stringify(call[r].value)]
          /\ l2ttl' = [l2ttl EXCEPT ![call[r].key] = FALSE]
          /\ call' = [call EXCEPT ![r] = IF @.ttl # 0 THEN [@ EXCEPT !.pc = "expire", !.trips = 3]
                                         ELSE [@ EXCEPT !.pc = "done"]]
  /\ UNCHANGED <<l1, l1ttl, inbox, handled, now, pubs, looks, disturbed, proc>>

\* EXPIRE is served: the getter returns the provider's value
L2Expiring(r, fail) ==
  /\ Up(r)
  /\ call[r].pc = "expire"
  /\ FailingCache(fail)
  /\ IF fail
     THEN /\ call' = [call EXCEPT ![r].pc = "failed"]
          /\ UNCHANGED l2ttl
     ELSE /\ l2ttl' = [l2ttl EXCEPT ![call[r].key] = l2[call[r].key] # Absent]
          /\ call' = [call EXCEPT ![r].pc = "done"]
  /\ UNCHANGED <<l1, l1ttl, inbox, handled, l2, now, pubs, looks, disturbed, proc>>

\* the store drops a key whose expiry has passed
StoreExpire(k) ==
  /\ l2ttl[k]
  /\ l2' = [l2 EXCEPT ![k] = Absent]
  /\ l2ttl' = [l2ttl EXCEPT ![k] = FALSE]
  /\ disturbed' = TRUE
  /\ UNCHANGED <<l1, l1ttl, inbox, call, handled, now, pubs, cerrs, looks, proc>>

\* ---- manual cache operations: createCache, updateCache, removeCache, getCache
\* updaters given to updateCache: count up from the current value, or return undefined
Updaters == {"inc", "skip"}
Inc(v) ==
  CASE IsNil(v) -> "zero"
    [] v = "zero" -> "one"
    [] OTHER -> "two"
Apply(u, current) == IF u = "skip" THEN Nil ELSE Inc(current)

\* JSON.parse(currentDataStr ?? 'null')
ParseOrNull(valueStr) == IF valueStr = Absent THEN Nil ELSE Parse(valueStr)

\* a manual operation is called: key derived, first await reached
\* prev: the thunk result of the createCache this replica completed just before, for getCache
ManualCall(r, arg, op, pc) ==
  /\ MayCall(r)
  /\ looks < MaxOps
  /\ looks' = looks + 1
  /\ call' = [call EXCEPT ![r] =
                [NoCall EXCEPT !.level = 3, !.op = op, !.pc = pc, !.key = KeyOf(arg),
                               !.prev = IF call[r].pc = "done" /\ call[r].op = "create"
                                           /\ call[r].key = KeyOf(arg)
                                        THEN call[r].prov ELSE "none"]]
  /\ UNCHANGED <<l1, l1ttl, inbox, handled, l2, l2ttl, now, pubs, cerrs, disturbed, proc>>

CreateCache(r, arg) == ManualCall(r, arg, "create", "thunk")
UpdateCache(r, arg) == ManualCall(r, arg, "update", "uget")
RemoveCache(r, arg) == ManualCall(r, arg, "remove", "del")
GetCache(r, arg) == ManualCall(r, arg, "get", "gget")

\* what a manual call does with the settled result of cb: set is sent for a non-nil one
SettledAlways(c, v, next) == [c EXCEPT !.pc = next, !.prov = v]
Settled(c, v, next) ==
  IF IsNil(v) THEN [c EXCEPT !.pc = "done", !.prov = v] ELSE [c EXCEPT !.pc = next, !.prov = v]

\* createCache: cb() settles
Thunked(r, v, fail) ==
  /\ Up(r)
  /\ call[r].pc = "thunk"
  /\ FailingCache(fail)
  /\ call' = [call EXCEPT ![r] = IF fail THEN [@ EXCEPT !.pc = "failed"]
                                 ELSE Settled(@, v, "cset")]
  /\ UNCHANGED <<l1, l1ttl, inbox, handled, l2, l2ttl, now, pubs, looks, disturbed, proc>>

\* updateCache: get is served; cb(currentData ?? undefined) is called
UpdateRead(r, fail) ==
  /\ Up(r)
  /\ call[r].pc = "uget"
  /\ FailingCache(fail)
  /\ call' = [call EXCEPT ![r] = IF fail THEN [@ EXCEPT !.pc = "failed"]
                                 ELSE [@ EXCEPT !.pc = "updater", !.trips = 1,
                                                !.cached = ParseOrNull(l2[call[r].key])]]
  /\ UNCHANGED <<l1, l1ttl, inbox, handled, l2, l2ttl, now, pubs, looks, disturbed, proc>>

\* updateCache: the updater settles
Updated(r, u, fail) ==
  /\ Up(r)
  /\ call[r].pc = "updater"
  /\ FailingCache(fail)
  /\ call' = [call EXCEPT ![r] = IF fail THEN [@ EXCEPT !.pc = "failed"]
                                 ELSE Settled(@, Apply(u, call[r].cached), "uset")]
  /\ UNCHANGED <<l1, l1ttl, inbox, handled, l2, l2ttl, now, pubs, looks, disturbed, proc>>

\* createCache / updateCache: set is served (it drops any expiry of the key)
ManualStoredAtomic(r, fail) ==
  /\ Up(r)
  /\ call[r].pc \in {"cset", "uset"}
  /\ FailingCache(fail)
  /\ IF fail
     THEN /\ call' = [call EXCEPT ![r].pc = "failed"]
          /\ UNCHANGED <<l2, l2ttl>>
     ELSE /\ l2' = [l2 EXCEPT ![call[r].key] = Stringify(Inc(ParseOrNull(@)))]
          /\ l2ttl' = [l2ttl EXCEPT ![call[r].key] = FALSE]
          /\ call' = [call EXCEPT ![r].pc = "done", ![r].trips = @ + 1]
  /\ UNCHANGED <<l1, l1ttl, inbox, handled, now, pubs, looks, disturbed, proc>>

ManualStored(r, fail) ==
  /\ Up(r)
  /\ call[r].pc \in {"cset", "uset"}
  /\ FailingCache(fail)
  /\ IF fail
     THEN /\ call' = [call EXCEPT ![r].pc = "failed"]
          /\ UNCHANGED <<l2, l2ttl>>
     ELSE /\ l2' = [l2 EXCEPT ![call[r].key] = Stringify(call[r].prov)]
          /\ l2ttl' = [l2ttl EXCEPT ![call[r].key] = FALSE]
          /\ call' = [call EXCEPT ![r].pc = "done", ![r].trips = @ + 1]
  /\ UNCHANGED <<l1, l1ttl, inbox, handled, now, pubs, looks, disturbed, proc>>

\* removeCache: del is served
Removed(r, fail) ==
  /\ Up(r)
  /\ call[r].pc = "del"
  /\ FailingCache(fail)
  /\ IF fail
     THEN /\ call' = [call EXCEPT ![r].pc = "failed"]
          /\ UNCHANGED <<l2, l2ttl>>
     ELSE /\ l2' = [l2 EXCEPT ![call[r].key] = Absent]
          /\ l2ttl' = [l2ttl EXCEPT ![call[r].key] = FALSE]
          /\ call' = [call EXCEPT ![r].pc = "done", ![r].trips = 1]
  /\ UNCHANGED <<l1, l1ttl, inbox, handled, now, pubs, looks, disturbed, proc>>

\* getCache: get is served and the parsed text returned
GetServed(r, fail) ==
  /\ Up(r)
  /\ call[r].pc = "gget"
  /\ FailingCache(fail)
  /\ call' = [call EXCEPT ![r] = IF fail THEN [@ EXCEPT !.pc = "failed"]
                                 ELSE [@ EXCEPT !.pc = "done", !.trips = 1,
                                                !.value = ParseOrNull(l2[call[r].key])]]
  /\ UNCHANGED <<l1, l1ttl, inbox, handled, l2, l2ttl, now, pubs, looks, disturbed, proc>>

InitCache ==
  /\ l1 = [r \in Rep |-> [k \in Keys |-> Absent]]
  /\ l1ttl = [r \in Rep |-> [k \in Keys |-> NoTtl]]
  /\ inbox = [r \in Rep |-> <<>>]
  /\ call = [r \in Rep |-> NoCall]
  /\ handled = [r \in Rep |-> NoMsg]
  /\ l2 = [k \in Keys |-> Absent]
  /\ l2ttl = [k \in Keys |-> FALSE]
  /\ now = TickMs
  /\ pubs = 0
  /\ cerrs = 0
  /\ looks = 0
  /\ disturbed = FALSE
  /\ proc = [r \in Rep |-> "up"]

\* ------------------------------------------------------ RedisClient counters
InitField == 5                   \* the field as saveCounter left it
Steps == {1, 2}                  \* step arguments

\* increaseCounter(counterName, name, step): hincrby with step is sent
IncreaseCounter(r, step) ==
  /\ hcalls < MaxCounterCalls
  /\ hcalls' = hcalls + 1
  /\ hflight' = Append(hflight, [by |-> r, step |-> step, seen |-> field])
  /\ net' = net + step
  /\ UNCHANGED <<field, raced>>

\* decreaseCounter(counterName, name, step): hincrby with 0 - step is sent
DecreaseCounter(r, step) ==
  /\ hcalls < MaxCounterCalls
  /\ hcalls' = hcalls + 1
  /\ hflight' = Append(hflight, [by |-> r, step |-> 0 - step, seen |-> field])
  /\ net' = net + (0 - step)
  /\ UNCHANGED <<field, raced>>

Without(q, n) == [j \in 1..(Len(q) - 1) |-> IF j < n THEN q[j] ELSE q[j + 1]]

\* the store serves one of the commands in flight: HINCRBY adds to the field as it is now
HIncrByStale(c) == c.seen + c.step
HIncrBy(c) == field + c.step

HServed(n, fail) ==
  /\ n \in 1..Len(hflight)
  /\ hflight' = Without(hflight, n)
  /\ IF fail
     THEN /\ net' = net - hflight[n].step
          /\ UNCHANGED <<field, raced>>
     ELSE /\ field' = HIncrBy(hflight[n])
          /\ raced' = (raced \/ hflight[n].seen # field)
          /\ UNCHANGED net
  /\ UNCHANGED hcalls

InitCounter ==
  /\ field = InitField
  /\ hflight = <<>>
  /\ net = 0
  /\ hcalls = 0
  /\ raced = FALSE

\* ------------------------------------------------------ FmkTimer
Intervals == {1, 5}              \* interval arguments, in seconds
Names == {"x", "y"}              \* callback names
NoOp == [op |-> "none", name |-> "", interval |-> 0]

\* Object.keys / Object.values of a Handlers object
NamesOf(h) == {h[n].name : n \in 1..Len(h)}
CallbacksOf(h) == [n \in 1..Len(h) |-> h[n].cb]
Places(q, c) == {n \in 1..Len(q) : q[n] = c}

\* this.timer[time][1][name] = callback: a known name keeps its place
Put(h, name, cb) ==
  IF name \in NamesOf(h)
  THEN [n \in 1..Len(h) |-> IF h[n].name = name THEN [name |-> name, cb |-> cb] ELSE h[n]]
  ELSE Append(h, [name |-> name, cb |-> cb])

\* delete handler[name]
RECURSIVE Drop(_, _)
Drop(h, name) ==
  IF h = <<>> THEN <<>>
  ELSE IF Head(h).name = name THEN Drop(Tail(h), name)
  ELSE <<Head(h)>> \o Drop(Tail(h), name)

\* the callbacks registered under name, in any bucket
Registered(name) ==
  UNION {{bucket[t][n].cb : n \in {m \in 1..Len(bucket[t]) : bucket[t][m].name = name}} :
         t \in Intervals}

\* onTimer(name, callback, interval): start and this.on for an interval without a bucket
OnTimer(name, t) ==
  /\ talive
  /\ regs < MaxRegs
  /\ regs' = regs + 1
  /\ IF bucket[t] = <<>>
     THEN /\ live' = live \union {t}
          /\ listeners' = [listeners EXCEPT ![t] = @ + 1]
     ELSE UNCHANGED <<live, listeners>>
  /\ bucket' = [bucket EXCEPT ![t] = Put(@, name, regs + 1)]
  /\ replaced' = replaced \union Registered(name)
  /\ started' = <<>>
  /\ lastT' = 0
  /\ last' = [op |-> "on", name |-> name, interval |-> t]
  /\ UNCHANGED <<tcalls, tticks, talive>>

\* offTimer(name)
OffTimerKeep(name) ==
  /\ talive
  /\ tcalls < MaxTimerCalls
  /\ tcalls' = tcalls + 1
  /\ bucket' = [t \in Intervals |-> Drop(bucket[t], name)]
  /\ UNCHANGED live
  /\ started' = <<>>
  /\ lastT' = 0
  /\ last' = [op |-> "off", name |-> name, interval |-> 0]
  /\ UNCHANGED <<listeners, regs, replaced, tticks, talive>>

OffTimer(name) ==
  /\ talive
  /\ tcalls < MaxTimerCalls
  /\ tcalls' = tcalls + 1
  /\ bucket' = [t \in Intervals |-> Drop(bucket[t], name)]
  /\ live' = {t \in live : Drop(bucket[t], name) # <<>>}
  /\ started' = <<>>
  /\ lastT' = 0
  /\ last' = [op |-> "off", name |-> name, interval |-> 0]
  /\ UNCHANGED <<listeners, regs, replaced, tticks, talive>>

\* stop(): clearInterval for every bucket; the buckets stay
StopTimers ==
  /\ talive
  /\ tcalls < MaxTimerCalls
  /\ tcalls' = tcalls + 1
  /\ live' = {}
  /\ started' = <<>>
  /\ lastT' = 0
  /\ last' = [op |-> "stop", name |-> "", interval |-> 0]
  /\ UNCHANGED <<bucket, listeners, regs, replaced, tticks, talive>>

\* the calls one emit makes: every listener maps over Object.values of the bucket
RECURSIVE Rounds(_, _)
Rounds(q, n) == IF n = 0 THEN <<>> ELSE q \o Rounds(q, n - 1)

\* cb() throwing inside map ends the map, the listener and the emit
UpToThrow(q, bad) ==
  IF Places(q, bad) = {} THEN q
  ELSE SubSeq(q, 1, CHOOSE n \in Places(q, bad) : \A m \in Places(q, bad) : n <= m)

\* the setInterval callback of interval t fires: emit; callback bad (0: none) fails, by
\* throwing or by returning a rejected promise; nothing catches either
Tick(t, bad, kind, fatal) ==
  /\ talive
  /\ t \in live
  /\ tticks < MaxTimerTicks
  /\ tticks' = tticks + 1
  /\ LET invoked == Rounds(CallbacksOf(bucket[t]), listeners[t])
         fails == Places(invoked, bad) # {}
     IN /\ started' = IF kind = "throw" THEN UpToThrow(invoked, bad) ELSE invoked
        /\ talive' = ~(fails /\ fatal)
        /\ fails \/ ~fatal
  /\ lastT' = t
  /\ UNCHANGED <<bucket, live, listeners, regs, replaced, last, tcalls>>

InitTimer ==
  /\ bucket = [t \in Intervals |-> <<>>]
  /\ live = {}
  /\ listeners = [t \in Intervals |-> 0]
  /\ regs = 0
  /\ replaced = {}
  /\ started = <<>>
  /\ lastT = 0
  /\ last = NoOp
  /\ tcalls = 0
  /\ tticks = 0
  /\ talive = TRUE

InitPace == pace = [due |-> {}, periods |-> 0]

Init == InitLeader /\ InitCache /\ InitCounter /\ InitTimer /\ InitPace

\* every interleaving of calls, timers, replies, expiry and store errors
NextLeader ==
  \/ \E i \in Inst, fail \in BOOLEAN : CallElect(i, fail) /\ UNCHANGED nonLeaderVars
  \/ \E i \in Inst, fail \in BOOLEAN : RetryFire(i, fail) /\ UNCHANGED nonLeaderVars
  \/ \E i \in Inst : ElectReplied(i) /\ UNCHANGED nonLeaderVars
  \/ \E i \in Inst, fail \in BOOLEAN : RenewFire(i, fail) /\ UNCHANGED nonLeaderVars
  \/ \E i \in Inst, fail \in BOOLEAN : RenewChecked(i, fail) /\ UNCHANGED nonLeaderVars
  \/ \E i \in Inst : RenewExtended(i) /\ UNCHANGED nonLeaderVars
  \/ \E i \in Inst, fail \in BOOLEAN : CallStop(i, fail) /\ UNCHANGED nonLeaderVars
  \/ \E i \in Inst, fail \in BOOLEAN : StopChecked(i, fail) /\ UNCHANGED nonLeaderVars
  \/ \E i \in Inst : StopDeleted(i) /\ UNCHANGED nonLeaderVars
  \/ StoreTick /\ UNCHANGED nonLeaderVars

SpecLeader == Init /\ [][NextLeader]_vars

\* An election without stop() and without store errors: every instance calls
\* elect() once, timers fire for ever (a timer period is longer than a store
\* round trip: a callback finds no command of its instance in flight), time
\* passes at the store, and one leading instance may stop serving its timers.
RetryQuiet(i) == pending[i] = <<>> /\ RetryTimeout(i, FALSE) /\ UNCHANGED fires
RenewQuiet(i) == pending[i] = <<>> /\ RenewInterval(i, FALSE) /\ UNCHANGED fires

NextElection ==
  \/ \E i \in Inst : phase[i] = "idle" /\ CallElect(i, FALSE) /\ UNCHANGED nonLeaderVars
  \/ \E i \in Inst : RetryQuiet(i) /\ UNCHANGED nonLeaderVars
  \/ \E i \in Inst : ElectReplied(i) /\ UNCHANGED nonLeaderVars
  \/ \E i \in Inst : RenewQuiet(i) /\ UNCHANGED nonLeaderVars
  \/ \E i \in Inst : RenewChecked(i, FALSE) /\ UNCHANGED nonLeaderVars
  \/ \E i \in Inst : RenewExtended(i) /\ UNCHANGED nonLeaderVars
  \/ \E i \in Inst : Starve(i) /\ UNCHANGED nonLeaderVars
  \/ StoreTick /\ UNCHANGED nonLeaderVars

\* armed timers fire, replies arrive and time passes
FairElection ==
  /\ \A i \in Inst : WF_vars(RetryQuiet(i) /\ UNCHANGED nonLeaderVars)
  /\ \A i \in Inst : WF_vars(RenewQuiet(i) /\ UNCHANGED nonLeaderVars)
  /\ \A i \in Inst : WF_vars(ElectReplied(i) /\ UNCHANGED nonLeaderVars)
  /\ \A i \in Inst : WF_vars(RenewChecked(i, FALSE) /\ UNCHANGED nonLeaderVars)
  /\ \A i \in Inst : WF_vars(RenewExtended(i) /\ UNCHANGED nonLeaderVars)
  /\ WF_vars(StoreTick /\ UNCHANGED nonLeaderVars)

SpecElection == Init /\ [][NextElection]_vars /\ FairElection

\* An election in which every store command succeeds and replies within the renewal
\* period, and every armed renewal interval fires once in each period (ttl / 2) of the
\* store's clock: a period ends when no interval is due and no reply is outstanding.
\* An idle instance may call elect(), an instance that is not idle may call stop().
PacedRenew(i) ==
  /\ i \in pace.due
  /\ RenewQuiet(i)
  /\ pace' = [pace EXCEPT !.due = @ \ {i}]

PacedTick ==
  /\ pace.due = {}
  /\ \A i \in Inst : pending[i] = <<>>
  /\ pace.periods < MaxPeriods
  /\ IF lockHolder # NoHolder THEN StoreTick ELSE UNCHANGED leaderVars
  /\ pace' = [due |-> {i \in Inst : renewRef[i] \/ renewOrph[i] > 0},
              periods |-> pace.periods + 1]

NextRenewal ==
  \/ \E i \in Inst : phase[i] = "idle" /\ ElectCall(i, FALSE, MaxPacedCalls)
                      /\ UNCHANGED nonLeaderVars
  \/ \E i \in Inst : pending[i] = <<>> /\ RetryFire(i, FALSE) /\ UNCHANGED nonLeaderVars
  \/ \E i \in Inst : ElectReplied(i) /\ UNCHANGED nonLeaderVars
  \/ \E i \in Inst : PacedRenew(i) /\ UNCHANGED nonElectionVars
  \/ \E i \in Inst : RenewChecked(i, FALSE) /\ UNCHANGED nonLeaderVars
  \/ \E i \in Inst : RenewExtended(i) /\ UNCHANGED nonLeaderVars
  \/ \E i \in Inst : StopCall(i, FALSE, MaxPacedCalls) /\ UNCHANGED nonLeaderVars
  \/ \E i \in Inst : StopChecked(i, FALSE) /\ UNCHANGED nonLeaderVars
  \/ \E i \in Inst : StopDeleted(i) /\ UNCHANGED nonLeaderVars
  \/ PacedTick /\ UNCHANGED nonElectionVars

SpecRenewal == Init /\ [][NextRenewal]_vars

\* the L1 cache: getter calls, resets, the subscribers, the sweep and the clock
NextL1 ==
  \/ \E r \in Rep, arg \in Args, t \in TtlChoices :
        L1Lookup(r, "a", arg, t) /\ UNCHANGED nonCacheVars
  \/ \E r \in Rep, v \in ProviderVals, fail \in BOOLEAN :
        L1Provided(r, v, fail) /\ UNCHANGED nonCacheVars
  \/ \E r \in Rep : L1Published(r) /\ UNCHANGED nonCacheVars
  \/ \E arg \in Args : Reset(arg) /\ UNCHANGED nonCacheVars
  \/ \E r \in Rep : Receive(r) /\ UNCHANGED nonCacheVars
  \/ \E r \in Rep : Sweep(r) /\ UNCHANGED nonCacheVars
  \/ ClockTick /\ UNCHANGED nonCacheVars

SpecL1 == Init /\ [][NextL1]_vars

\* getters made by L1() for two params, called with or without an argument
NextGetters ==
  \/ \E r \in Rep, getter \in Getters, arg \in Args, t \in TtlChoices :
        L1Lookup(r, getter, arg, t) /\ UNCHANGED nonCacheVars
  \/ \E r \in Rep, v \in ProviderVals, fail \in BOOLEAN :
        L1Provided(r, v, fail) /\ UNCHANGED nonCacheVars
  \/ \E r \in Rep : L1Published(r) /\ UNCHANGED nonCacheVars
  \/ \E r \in Rep : Receive(r) /\ UNCHANGED nonCacheVars

SpecGetters == Init /\ [][NextGetters]_vars

\* the broker delivers and every subscriber's message handler runs
FairDelivery == \A r \in Rep : WF_vars(Receive(r) /\ UNCHANGED nonCacheVars)

SpecBroadcast == Init /\ [][NextL1]_vars /\ FairDelivery

\* the L1 cache with publishes the store rejects
NextL1Failure ==
  \/ NextL1
  \/ \E r \in Rep, v \in ProviderVals : L1PublishFailed(r, v) /\ UNCHANGED nonCacheVars

SpecL1Failure == Init /\ [][NextL1Failure]_vars

\* the subscriber under payloads it cannot parse and store failures
NextHandler ==
  \/ \E r \in Rep, arg \in Params, t \in TtlChoices :
        L1Lookup(r, "a", arg, t) /\ UNCHANGED nonCacheVars
  \/ \E r \in Rep, v \in ProviderVals : L1Provided(r, v, FALSE) /\ UNCHANGED nonCacheVars
  \/ \E r \in Rep : L1Published(r) /\ UNCHANGED nonCacheVars
  \/ \E arg \in Params : Reset(arg) /\ UNCHANGED nonCacheVars
  \/ PublishForeign /\ UNCHANGED nonCacheVars
  \/ \E r \in Rep : Receive(r) /\ UNCHANGED nonCacheVars
  \/ \E r \in Rep, fatal \in BOOLEAN : ReceiveFailing(r, fatal) /\ UNCHANGED nonCacheVars

SpecHandler == Init /\ [][NextHandler]_vars

\* the L2 cache: getter calls, resets, the subscribers and the store's expiry
NextL2 ==
  \/ \E r \in Rep, arg \in Args, t \in TtlChoices : L2Lookup(r, arg, t) /\ UNCHANGED nonCacheVars
  \/ \E r \in Rep, fail \in BOOLEAN : L2Got(r, fail) /\ UNCHANGED nonCacheVars
  \/ \E r \in Rep, v \in ProviderVals, fail \in BOOLEAN :
        L2Provided(r, v, fail) /\ UNCHANGED nonCacheVars
  \/ \E r \in Rep, fail \in BOOLEAN : L2Stored(r, fail) /\ UNCHANGED nonCacheVars
  \/ \E r \in Rep, fail \in BOOLEAN : L2Expiring(r, fail) /\ UNCHANGED nonCacheVars
  \/ \E k \in Keys : StoreExpire(k) /\ UNCHANGED nonCacheVars
  \/ \E arg \in Args : Reset(arg) /\ UNCHANGED nonCacheVars
  \/ \E r \in Rep : Receive(r) /\ UNCHANGED nonCacheVars

SpecL2 == Init /\ [][NextL2]_vars

\* the timer service: registrations, removals, stop and ticks
NextTimer ==
  \/ \E name \in Names, t \in Intervals : OnTimer(name, t) /\ UNCHANGED nonTimerVars
  \/ \E name \in Names : OffTimer(name) /\ UNCHANGED nonTimerVars
  \/ StopTimers /\ UNCHANGED nonTimerVars
  \/ \E t \in Intervals, bad \in 0..MaxRegs, kind \in {"throw", "reject"}, fatal \in BOOLEAN :
        Tick(t, bad, kind, fatal) /\ UNCHANGED nonTimerVars

SpecTimer == Init /\ [][NextTimer]_vars

\* the hash counter: calls and the store serving them in any order
NextCounter ==
  \/ \E r \in Rep, step \in Steps : IncreaseCounter(r, step) /\ UNCHANGED nonCounterVars
  \/ \E r \in Rep, step \in Steps : DecreaseCounter(r, step) /\ UNCHANGED nonCounterVars
  \/ \E n \in 1..MaxCounterCalls, fail \in BOOLEAN : HServed(n, fail) /\ UNCHANGED nonCounterVars

SpecCounter == Init /\ [][NextCounter]_vars

\* the manual operations on the shared store
NextManual ==
  \/ \E r \in Rep, arg \in Params : CreateCache(r, arg) /\ UNCHANGED nonCacheVars
  \/ \E r \in Rep, arg \in Params : UpdateCache(r, arg) /\ UNCHANGED nonCacheVars
  \/ \E r \in Rep, arg \in Params : RemoveCache(r, arg) /\ UNCHANGED nonCacheVars
  \/ \E r \in Rep, arg \in Params : GetCache(r, arg) /\ UNCHANGED nonCacheVars
  \/ \E r \in Rep, v \in ProviderVals, fail \in BOOLEAN : Thunked(r, v, fail) /\ UNCHANGED nonCacheVars
  \/ \E r \in Rep, fail \in BOOLEAN : UpdateRead(r, fail) /\ UNCHANGED nonCacheVars
  \/ \E r \in Rep, u \in Updaters, fail \in BOOLEAN : Updated(r, u, fail) /\ UNCHANGED nonCacheVars
  \/ \E r \in Rep, fail \in BOOLEAN : ManualStored(r, fail) /\ UNCHANGED nonCacheVars
  \/ \E r \in Rep, fail \in BOOLEAN : Removed(r, fail) /\ UNCHANGED nonCacheVars
  \/ \E r \in Rep, fail \in BOOLEAN : GetServed(r, fail) /\ UNCHANGED nonCacheVars

SpecManual == Init /\ [][NextManual]_vars

\* ------------------------------------------------------------ claims
\* an instance whose stop() is running is not counted as Leader
Leaders == {i \in Inst : leading[i] /\ phase[i] = "active"}
Winners == {i \in Inst : leading[i] \/ \E k \in 1..Len(pending[i]) :
                                         pending[i][k] = Msg("elect", 1)}
Candidate(i) == phase[i] = "active" /\ ~leading[i]
                /\ (electRef[i] \/ HasPending(i, {"elect"}))
NoTimer(i) == ~renewRef[i] /\ ~electRef[i] /\ renewOrph[i] = 0 /\ electOrph[i] = 0

\* C1: at every moment at most one instance is in the Leader state (it has
\* emitted `elected` and has since neither emitted `revoked` nor been stopped).
C1_AtMostOneLeader == Cardinality(Leaders) <= 1

\* C2: when both instances have raced elect() for the absent key (and the key
\* has not expired since), exactly one wins, is Leader with its renewal timer
\* armed, and the other is not Leader and has a retry armed or running; an armed
\* retry of an instance whose timers are served leads to another elect().
C2_Raced == (\A i \in Inst : phase[i] = "active") /\ ~everExpired
C2_OneWinner ==
  C2_Raced =>
    /\ Cardinality(Winners) = 1
    /\ \A i \in Inst : leading[i] => renewRef[i]
    /\ \A i \in Inst \ Winners : Candidate(i)
C2_ElectRace ==
  /\ []C2_OneWinner
  /\ \A i \in Inst : electRef[i] ~> (HasPending(i, {"elect"}) \/ starved = i)
C2_Witness ==
  /\ C2_Raced
  /\ \E i \in Inst : leading[i] /\ renewRef[i] /\ pending[i] = <<>>
  /\ \E i \in Inst : ~leading[i] /\ electRef[i] /\ pending[i] = <<>>

\* C3: when the Leader's timers are never served again, a waiting Candidate
\* is eventually elected (the store expires the key, the retry succeeds).
C3_Failover ==
  \A l \in Inst :
    (starved = l /\ lockHolder = l /\ \E j \in Inst \ {l} : Candidate(j))
      ~> (\E j \in Inst \ {l} : leading[j])
C3_Witness ==
  \E l \in Inst : /\ starved = l
                  /\ everExpired
                  /\ \E j \in Inst \ {l} : leading[j] /\ lockHolder = j

\* C4: once stop() has completed (no store error, every armed timer referenced
\* by renewId / electId), the instance has no timer armed, no elect() or renew()
\* in flight and is not Leader, until elect() is called again.
C4_StopLeavesIdle ==
  \A i \in Inst :
    (phase[i] = "idle" /\ errs = 0 /\ renewOrph[i] = 0 /\ electOrph[i] = 0) =>
      /\ ~renewRef[i] /\ ~electRef[i]
      /\ ~HasPending(i, {"elect", "renewGet", "renewPexpire"})
      /\ ~leading[i]

\* C5 as stated: no instance ever extends or deletes a lock record whose
\* stored holder is another instance.
C5_NeverTouchesForeign == lastWrite # "foreign"
\* C5 as amended: every pexpire / del an instance sends follows a holder check
\* of the same call that read its own id.
C5_WritesFollowOwnCheck == lastWrite # "none" => lastChecked
C5_Witness == lastWrite = "foreign" /\ lastChecked

\* getter calls of the L1 path that have returned
Returned(r) == call[r].level = 1 /\ call[r].pc = "done"
Missed(r) == IsNil(call[r].cached)

Returned2(r) == call[r].level = 2 /\ call[r].pc = "done"
Missed2(r) == IsNil(call[r].cached)
\* the step in which the store serves the SET of replica r's getter
Stores(r) == call[r].level = 2 /\ call[r].pc = "set" /\ call'[r].pc \in {"expire", "done"}
\* no other replica's getter has run a provider of its own
AloneProviding(r) == \A o \in Rep \ {r} : call[o].invoked = 0

\* C7 (as stated): a call finding no namespaced key invokes the provider once and returns
\* its result; a call from any replica that starts after a call for K returned a non-nil
\* result, with no expiry or reset in between, returns the same result with no provider call
C7_ReadThroughL2 ==
  \A r \in Rep : Returned2(r) =>
    /\ Missed2(r) => call[r].invoked = 1 /\ call[r].value = call[r].prov
    /\ (call[r].prev \notin {"none", Nil} /\ ~disturbed) =>
         call[r].invoked = 0 /\ call[r].value = call[r].prev

C7_Returns ==
  \A r \in Rep : Returned2(r) =>
    /\ Missed2(r) => call[r].invoked = 1 /\ call[r].value = call[r].prov
    /\ ~Missed2(r) => call[r].invoked = 0 /\ call[r].value = Parse(call[r].cached)
    /\ (call[r].prev \notin {"none", Nil} /\ ~disturbed) => call[r].invoked = 0
    /\ (call[r].prev \notin {"none", Nil} /\ ~disturbed /\ AloneProviding(r)) =>
         call[r].value = Json(call[r].prev)

\* C7 (amended): a call whose GET finds no namespaced key invokes the provider once,
\* stores the JSON text of a non-nil result and returns the result; a call whose GET finds
\* the key returns the parsed text with no provider call; a call that starts after one
\* returned a non-nil result, with no expiry or reset in between, invokes no provider and,
\* when no other replica stored a result of its own, returns the JSON round trip of that result
C7_ReadThroughStore ==
  /\ []C7_Returns
  /\ [][\A r \in Rep : Stores(r) => l2'[call[r].key] = Stringify(call[r].prov)]_vars

\* a second call answered from the store with the string a Date became
C7_Witness ==
  \E r \in Rep : Returned2(r) /\ ~disturbed /\ call[r].prev = "date"
                   /\ call[r].invoked = 0 /\ call[r].value = "str"

\* replica r's subscriber handles the message at the head of its inbox in this step
Handles(r) == inbox[r] # <<>> /\ inbox'[r] = Tail(inbox[r])
Delivered(r, id) == \E n \in 1..Len(inbox[r]) : inbox[r][n].id = id
\* replica a's getter resolved a miss with a non-nil value and published the only message
SolePublisher(a) ==
  /\ call[a].level = 1 /\ call[a].pc \in {"publish", "done"}
  /\ call[a].trips = 1 /\ pubs = 1 /\ ~disturbed

\* C8 (as stated): once a replica's subscriber has processed the L1Update of A's resolved
\* miss, the replica's local map holds the value A's provider returned for K
C8_HoldsValue ==
  \A a \in Rep, r \in Rep : (SolePublisher(a) /\ handled[r].id = 1) =>
    l1[r][call[a].key] = call[a].value

C8_HoldsJson ==
  \A a \in Rep, r \in Rep : (SolePublisher(a) /\ handled[r].id = 1) =>
    l1[r][call[a].key] = Json(call[a].value)

\* C8 (amended): a published message is delivered to every replica, the originator
\* included, and every replica's subscriber eventually handles it; handling an L1Update
\* sets the local entry to the parsed JSON of the broadcast value whatever the entry was,
\* so the replica holds the JSON round trip of the value A's provider returned
C8_Broadcast ==
  /\ []C8_HoldsJson
  /\ [][pubs' # pubs => \A r \in Rep : inbox'[r] # <<>> /\ inbox'[r][Len(inbox'[r])].id = pubs']_vars
  /\ [][\A r \in Rep : (Handles(r) /\ Head(inbox[r]).event = "L1_UPDATE") =>
           l1'[r][Head(inbox[r]).param] = Parse(Head(inbox[r]).value)]_vars
  /\ \A r \in Rep, id \in 1..MaxPubs : Delivered(r, id) ~> (handled[r].id = id)

\* both replicas have handled the L1Update of a Date and hold the string
C8_Witness ==
  \E a \in Rep : /\ SolePublisher(a) /\ call[a].value = "date"
                  /\ \A r \in Rep : handled[r].id = 1 /\ l1[r][call[a].key] = "str"

\* C9: once every replica's subscriber has handled the REST message for K (and nothing
\* after it), no replica's local map or TTL index contains K and the store has no
\* namespaced key for K
C9_ResetClears ==
  \A k \in Keys :
    (\A r \in Rep : handled[r].event = "REST" /\ handled[r].param = k) =>
      /\ \A r \in Rep : l1[r][k] = Absent /\ l1ttl[r][k] = NoTtl
      /\ l2[k] = Absent

\* the TTL index of replica r changes in this step and not by a message: a sweep
Swept(r) == ~Handles(r) /\ l1ttl'[r] # l1ttl[r]
HasTtl(r, k) == l1ttl[r][k] # NoTtl

\* C10: a subscriber applying an L1Update with a ttl makes the entry present and indexes
\* it; while createdAt + ttl * 1000 >= now no sweep removes it from the map or the index;
\* a sweep at a time with createdAt + ttl * 1000 < now removes it from both
C10_TtlExpiry ==
  /\ [][\A r \in Rep :
          (Handles(r) /\ Head(inbox[r]).event = "L1_UPDATE" /\ Head(inbox[r]).ttl # 0) =>
            LET m == Head(inbox[r]) IN
              /\ l1'[r][m.param] # Absent
              /\ l1ttl'[r][m.param] = [createdAt |-> m.createdAt, ttl |-> m.ttl]]_vars
  /\ [][\A r \in Rep, k \in Keys :
          (HasTtl(r, k) /\ ~Handles(r)
             /\ l1ttl[r][k].createdAt + l1ttl[r][k].ttl * 1000 >= now) =>
            l1'[r][k] = l1[r][k] /\ l1ttl'[r][k] = l1ttl[r][k]]_vars
  /\ [][\A r \in Rep, k \in Keys :
          (HasTtl(r, k) /\ Swept(r)
             /\ l1ttl[r][k].createdAt + l1ttl[r][k].ttl * 1000 < now) =>
            l1'[r][k] = Absent /\ l1ttl'[r][k] = NoTtl]_vars

\* the last message a replica handled inserted an entry with a ttl, and a sweep removed it
C10_Witness ==
  \E r \in Rep :
    /\ handled[r].event = "L1_UPDATE" /\ handled[r].ttl # 0
    /\ handled[r].createdAt + handled[r].ttl * 1000 < now
    /\ l1[r][handled[r].param] = Absent /\ l1ttl[r][handled[r].param] = NoTtl

\* C11: no error ever leaves a replica's message handler uncaught: whatever payload
\* arrives and whether or not the del of a REST succeeds, the process stays up with
\* nothing escaped, and so goes on handling messages
C11_HandlerNeverFails == \A r \in Rep : proc[r] = "up"

\* an L1 getter call of replica r rejects in this step
Rejects(r) == call'[r].level = 1 /\ call'[r].pc = "failed" /\ call[r].pc # "failed"

\* C12: an L1 getter call that rejects, because the provider threw or because the publish
\* of the provider's non-nil value was rejected, returns no value, has published no
\* message, and the step in which it rejects changes no replica's L1 map, TTL index or inbox
C12_L1Failure ==
  /\ [](\A r \in Rep : (call[r].level = 1 /\ call[r].pc = "failed") =>
          call[r].value = Nil /\ call[r].trips = 0)
  /\ [][\A r \in Rep : Rejects(r) => UNCHANGED <<l1, l1ttl, inbox, pubs>>]_vars

\* the provider returned a Date, the publish was rejected, and no replica got anything
C12_Witness ==
  \E r \in Rep :
    /\ call[r].level = 1 /\ call[r].pc = "failed" /\ call[r].prov = "date"
    /\ pubs = 0
    /\ \A o \in Rep : inbox[o] = <<>> /\ \A k \in Keys : l1[o][k] = Absent /\ l1ttl[o][k] = NoTtl

\* replica g's getCache has returned, after g's createCache for the key completed, and no
\* other replica has called anything
GotAfterCreate(g) ==
  /\ call[g].op = "get" /\ call[g].pc = "done" /\ call[g].prev # "none"
  /\ \A o \in Rep \ {g} : call[o].pc = "none"

\* C13 (as stated): getCache after a completed createCache returns the thunk's result,
\* whatever was stored before and whatever the thunk returned
C13_CreateOverwrites == \A g \in Rep : GotAfterCreate(g) => call[g].value = call[g].prev

\* C13 (amended): createCache stores the JSON text of a non-nil thunk result whatever was
\* stored before, and getCache then returns its JSON round trip; when the thunk returns
\* nil, createCache completes without touching the store
C13_CreateStores ==
  /\ [](\A g \in Rep : (GotAfterCreate(g) /\ ~IsNil(call[g].prev)) =>
          call[g].value = Json(call[g].prev))
  /\ [][\A r \in Rep : (call[r].pc = "cset" /\ call'[r].pc = "done") =>
           ~IsNil(call[r].prov) /\ l2'[call[r].key] = Stringify(call[r].prov)]_vars
  /\ [][\A r \in Rep : (call[r].pc = "thunk" /\ call'[r].pc = "done") =>
           IsNil(call'[r].prov) /\ l2' = l2]_vars

\* createCache with a thunk returning nil completed and getCache still returns the old 0
C13_Witness ==
  \E g \in Rep : GotAfterCreate(g) /\ call[g].prev = Nil /\ call[g].value = "zero"

\* C14: updateCache writes back the updater's result for the value it read, and only a
\* non-nil result; the read and the write are two store commands (two concurrent calls can
\* read the same value and the stored value then reflects one updater only)
C14_ReadThenWrite ==
  /\ [](\A r \in Rep : call[r].op = "update" =>
          /\ call[r].pc = "uset" => ~IsNil(call[r].prov) /\ call[r].prov = Inc(call[r].cached)
          /\ (call[r].pc = "done" /\ IsNil(call[r].prov)) => call[r].trips = 1)
  /\ [][\A r \in Rep : (call[r].pc = "uset" /\ call'[r].pc = "done") =>
           l2'[call[r].key] = Stringify(call[r].prov)]_vars

\* two completed updateCache calls read the same value and one increment is stored
C14_Witness ==
  /\ \A r \in Rep : call[r].op = "update" /\ call[r].pc = "done" /\ call[r].trips = 2
                     /\ call[r].key = KeyOf("a") /\ call[r].cached = "zero"
                     /\ call[r].prov = "one"
  /\ l2[KeyOf("a")] = "1"

\* C15: when every increaseCounter / decreaseCounter call sent has been served, the
\* field equals its initial value plus the net of the steps of the calls the store
\* did not reject, however the calls interleaved
C15_CounterExact == hflight = <<>> => field = InitField + net

\* all calls are served, and one of them was served after the field had changed
\* between its sending and its serving
C15_Witness == hflight = <<>> /\ hcalls = MaxCounterCalls /\ raced /\ field # InitField

\* ------------------------------------------------------ FmkTimer claims
Called == {started[n] : n \in 1..Len(started)}

\* C16: onTimer is an upsert by name: once a name is registered again, with any
\* interval, the callback it had before is never called by a later tick
C16_ReplacedNeverInvoked == Called \cap replaced = {}

OffStep == tcalls' = tcalls + 1 /\ last'.op = "off"
Others(h, name) == SelectSeq(h, LAMBDA e : e.name # name)

\* C17: offTimer(name) removes name from every bucket and leaves the other entries as
\* they were; a bucket left empty has its timer cleared, a bucket that keeps an entry
\* keeps its timer as it was
C17_OffTimer ==
  [][OffStep => \A t \in Intervals :
       /\ bucket'[t] = Others(bucket[t], last'.name)
       /\ bucket'[t] = <<>> => t \notin live'
       /\ bucket'[t] # <<>> => (t \in live' <=> t \in live)]_vars

\* offTimer has emptied one ticking bucket and left another, still ticking, with its entry
C17_Witness ==
  /\ last.op = "off"
  /\ \E t, u \in Intervals :
       /\ bucket[t] = <<>> /\ listeners[t] > 0 /\ t \notin live
       /\ bucket[u] # <<>> /\ last.name \notin NamesOf(bucket[u]) /\ u \in live

\* C18: a tick of interval T calls every callback registered for T, whatever another
\* callback of T does
C18_AllStarted ==
  lastT # 0 => \A n \in 1..Len(bucket[lastT]) : bucket[lastT][n].cb \in Called

\* C19: an interval has a running timer exactly when a callback is registered for it;
\* checked where the claim is most specific: once onTimer has returned, the interval it
\* registered for has a running timer and keeps it until the next offTimer or stop call
C19_ActiveAfterOnTimer ==
  talive /\ last.op = "on" => last.interval \in live /\ bucket[last.interval] # <<>>

\* ------------------------------------------------------ L1 last write wins
\* replica r's subscriber handles an L1Update for k
Updates(r, k) ==
  Handles(r) /\ Head(inbox[r]).event = "L1_UPDATE" /\ Head(inbox[r]).param = k
\* r's entry for k is removed: by the REST branch, or by the sweep of an expired entry
Removes(r, k) ==
  /\ l1'[r][k] = Absent
  /\ \/ Handles(r) /\ Head(inbox[r]).event = "REST" /\ Head(inbox[r]).param = k
     \/ l1ttl[r][k] # NoTtl /\ Expired(l1ttl[r][k], now)
\* the replicas have handled every message published so far
Quiet == \A r \in Rep : inbox[r] = <<>>
\* both replicas missed the same key, their providers returned different values, both
\* published and both publishes were acknowledged
BothPublished ==
  /\ pubs = 2
  /\ \A r \in Rep : call[r].level = 1 /\ call[r].pc = "done" /\ call[r].trips = 1
  /\ \E a, b \in Rep : call[a].key = call[b].key /\ call[a].value # call[b].value

\* C20: last write via broadcast wins. Handling an L1Update for K sets the local entry
\* for K to the parsed value it carries, whatever the entry was; the entry changes in no
\* other way than by being removed (reset, ttl sweep): the getter never writes the map.
\* So replicas that have handled the same messages, in the order of the broker, hold
\* the same value for K wherever both hold one
C20_LastWriteWins ==
  /\ [][\A r \in Rep, k \in Keys :
         /\ Updates(r, k) => l1'[r][k] = Parse(Head(inbox[r]).value)
         /\ l1'[r][k] # l1[r][k] => Updates(r, k) \/ Removes(r, k)]_vars
  /\ [](Quiet => \A a, b \in Rep, k \in Keys :
                   l1[a][k] = l1[b][k] \/ Absent \in {l1[a][k], l1[b][k]})

\* both replicas missed K at once and broadcast different values; both have handled both
\* broadcasts and hold the same value
C20_Witness ==
  /\ BothPublished /\ Quiet
  /\ \A r \in Rep : handled[r].id = 2 /\ handled[r].event = "L1_UPDATE"
  /\ \A a, b \in Rep : l1[a][handled[a].param] = l1[b][handled[a].param]
                        /\ l1[a][handled[a].param] = Parse(handled[a].value)

\* ------------------------------------------------------ Leader.renew
\* renew() of instance i resumes after the holder check of its tick
Checked(i) ==
  /\ pending[i] # <<>> /\ Head(pending[i]).op = "renewGet"
  /\ \/ pending'[i] = Tail(pending[i])
     \/ Len(pending'[i]) = Len(pending[i]) /\ pending'[i] # pending[i]
\* the retry timeouts of instance i that are armed
ElectArmed(ref, orph, i) == (IF ref[i] THEN 1 ELSE 0) + orph[i]
Emitted(i, e) == \E n \in 1..Len(emitted[i]) : emitted[i][n] = e

\* C21: a renewal tick whose check reads the own id sends PEXPIRE key ttl (which sets the
\* ttl of the key when it is still there and the command succeeds) and changes neither the
\* timers nor the Leader state; a tick whose check reads another holder or no holder
\* clears the renewal interval, emits `revoked` once, arms one retry timeout and is no
\* longer Leader
C21_RenewTick ==
  [][\A i \in Inst : Checked(i) =>
       LET res == Head(pending[i]).res
           sent == pending'[i][Len(pending'[i])]
       IN /\ res = i =>
               /\ Len(pending'[i]) = Len(pending[i]) /\ sent.op = "renewPexpire"
               /\ (sent.res # Err /\ lockHolder # NoHolder) => lockTtl' = TtlTicks
               /\ renewRef' = renewRef /\ renewOrph' = renewOrph
               /\ electRef' = electRef /\ electOrph' = electOrph
               /\ leading' = leading /\ emitted'[i] = <<>>
          /\ res \notin {i, Err} =>
               /\ pending'[i] = Tail(pending[i])
               /\ ~renewRef'[i] /\ renewOrph' = renewOrph
               /\ emitted'[i] = <<"revoked">>
               /\ electRef'[i]
               /\ ElectArmed(electRef', electOrph', i) = ElectArmed(electRef, electOrph, i) + 1
               /\ ~leading'[i]]_vars

\* one instance has just emitted `revoked` and armed its retry; the other, the new holder,
\* has sent the PEXPIRE of its tick and is Leader with its renewal interval armed
C21_Witness ==
  \E i, j \in Inst :
    /\ i # j
    /\ emitted[i] = <<"revoked">> /\ electRef[i] /\ ~renewRef[i] /\ ~leading[i]
    /\ pending[j] = <<Msg("renewPexpire", 1)>> /\ lockHolder = j /\ lockTtl = TtlTicks
    /\ leading[j] /\ renewRef[j]

\* C22: the step of renew() that emits `error` for a failed store command of its tick
\* emits no `revoked` with it (and so clears no interval and arms no retry)
C22_ErrorKeepsState ==
  \A i \in Inst : ~(Emitted(i, "error") /\ Emitted(i, "revoked"))

\* C23: a getter made for one param never returns a value cached by the miss of a getter
\* made for another param; checked for getters called without an argument: the only value
\* published so far is that of a's miss, and r's call returned a cached value
C23_OwnValuesOnly ==
  \A a, r \in Rep :
    (/\ SolePublisher(a) /\ call[a].key = KeyOf(Undef)
     /\ Returned(r) /\ call[r].key = KeyOf(Undef) /\ ~IsNil(call[r].cached)) =>
      call[r].param = call[a].param

\* elect() has been called and no stop() is running or has run since
Electing(i) == phase[i] = "active" /\ ~HasPending(i, {"stopGet", "stopDel"})
RenewArmed(i) == renewRef[i] \/ renewOrph[i] > 0
RetryArmed(i) == electRef[i] \/ electOrph[i] > 0

\* C24: no stuck instance: between elect() and stop() an instance is Leader with a
\* renewal interval armed, or its SET is in flight, or a retry timeout is armed
C24_NoStuckInstance ==
  \A i \in Inst : Electing(i) =>
    \/ leading[i] /\ RenewArmed(i)
    \/ HasPending(i, {"elect"})
    \/ RetryArmed(i)

\* C25: a tick calls no callback of its interval more than once (that it calls each at
\* least once unless an earlier one throws is C18)
C25_OncePerTick ==
  lastT # 0 => \A n \in 1..Len(bucket[lastT]) :
                 Cardinality(Places(started, bucket[lastT][n].cb)) <= 1

\* ------------------------------------------------------ the L1 maps
\* C26: in every replica every key of levelOneCacheTTL is a key of levelOneCache
C26_TtlIndexWithinMap ==
  \A r \in Rep, k \in Keys : l1ttl[r][k] # NoTtl => l1[r][k] # Absent

\* an L1Update with a ttl, then a Reset for its key: one replica has handled both and holds
\* neither the value nor the ttl entry, the other has handled the first and holds both
C26_Witness ==
  \E r, o \in Rep :
    /\ handled[o].id = 1 /\ handled[o].event = "L1_UPDATE" /\ handled[o].ttl # 0
    /\ Truthy(l1[o][handled[o].param]) /\ l1ttl[o][handled[o].param] # NoTtl
    /\ handled[r].id = 2 /\ handled[r].event = "REST" /\ handled[r].param = handled[o].param
    /\ l1[r][handled[r].param] = Absent /\ l1ttl[r][handled[r].param] = NoTtl

\* C27: the last message a replica handled is an L1Update without a ttl: the entry it
\* set is still in the map, whatever the replica handled before and whenever it sweeps
C27_NoTtlNeverSwept ==
  \A r \in Rep : (handled[r].event = "L1_UPDATE" /\ handled[r].ttl = 0) =>
    l1[r][handled[r].param] # Absent

\* C28: an instance has at most one renewal interval and at most one retry timeout armed,
\* never both, and none that renewId / electId no longer refers to
C28_TimersReferenced ==
  \A i \in Inst :
    /\ renewOrph[i] = 0 /\ electOrph[i] = 0
    /\ ~(renewRef[i] /\ electRef[i])

\* ------------------------------------------------------ L2 expiry
\* C29: the getter call of r, made with a ttl, has stored its value and has ended, and
\* no other getter has stored: while the key is in the store it has an expiry
C29_ExpiryKept ==
  \A r \in Rep :
    (/\ call[r].level = 2 /\ call[r].ttl # 0 /\ call[r].trips = 3
     /\ call[r].pc \in {"done", "failed"} /\ AloneProviding(r)
     /\ l2[call[r].key] # Absent) => l2ttl[call[r].key]

\* ------------------------------------------------------ steady renewal
\* the replies instance j has not handled yet
Replies(j) == {pending[j][k] : k \in 1..Len(pending[j])}

\* C30: while every store command succeeds and the renewal interval fires in every
\* period of ttl / 2, the lock key never expires, no other instance wins an election
\* while the Leader has not called stop(), and no renewal tick emits `revoked` (the
\* step of renew() that emits it arms the retry, the step of stop() that emits it clears it)
C30_LeaderKeepsLock ==
  /\ ~everExpired
  /\ \A i \in Leaders : \A j \in Inst \ {i} : j \notin Leaders /\ Msg("elect", 1) \notin Replies(j)
  /\ \A i \in Inst : Emitted(i, "revoked") => ~electRef[i]

====
